---- MODULE Spec2Model ----
(***************************************************************************)
(* A model of the effect library: Effect values and their callback chains, *)
(* the result box, perform's trampolined chain walk, the dispatchers and   *)
(* the Twisted bridge (effect/__init__.py, effect/twisted.py).             *)
(*                                                                         *)
(* Python values are tagged records (field t).  A result is the pair       *)
(* <<is_error, value>> exactly as perform passes it around.  The call      *)
(* stack is explicit: one frame per running trampoline loop and one per    *)
(* perform_parallel in progress, the last element being the innermost.     *)
(***************************************************************************)
EXTENDS Integers, Sequences, FiniteSets, TLC

\* ------------------------------------------------------------------ bounds
\* longest chain attached to the performed Effect
MaxChain == 2
\* most child Effects given to parallel()
MaxChildren == 3
\* most Effect objects a caller builds while extending chains
MaxEffects == 4

\* ------------------------------------------------------------------ values
NoneV == [t |-> "None"]
\* the place of a result pair <<is_error, value>> that is not there yet
NoResult == <<>>
IntV(n) == [t |-> "int", n |-> n]
List(s) == [t |-> "list", items |-> s]

\* an exception instance and the sys.exc_info() triple (type, value, tb)
Exc(cls, arg) == [t |-> "exception", cls |-> cls, arg |-> arg]
ExcType(e) == [t |-> "type", cls |-> e.cls]
Traceback(e) == [t |-> "traceback", of |-> e.cls]
exc_info(e) == [t |-> "tuple", items |-> <<ExcType(e), e, Traceback(e)>>]

NoEffectHandlerError(intent) == Exc("NoEffectHandlerError", intent)

\* ----------------------------------------------------------------- intents
\* An intent whose perform_effect is a synchronous_performer returning v.
ConstIntent(v) == [t |-> "intent", type |-> "Const", has_perform |-> TRUE, v |-> v]
\* An intent whose perform_effect is a synchronous_performer that raises.
FailIntent == [t |-> "intent", type |-> "Fail", has_perform |-> TRUE]
\* An intent without a perform_effect method.
RawIntent == [t |-> "intent", type |-> "Raw", has_perform |-> FALSE]
\* An intent without a perform_effect method that the caller's own dispatcher
\* recognises and resolves later.
AsyncIntent(k) == [t |-> "intent", type |-> "Async", has_perform |-> FALSE, k |-> k]
ParallelEffects(effects) ==
    [t |-> "intent", type |-> "ParallelEffects", has_perform |-> FALSE, effects |-> effects]

\* ------------------------------------------------------------------ Effect
Effect(intent) == [t |-> "Effect", intent |-> intent, callbacks |-> <<>>]

with_callbacks(intent, callbacks) ==
    [Effect(intent) EXCEPT !.callbacks = callbacks]

on_prepend(self, success, error) ==
    with_callbacks(self.intent, << <<success, error>> >> \o self.callbacks)

on(self, success, error) ==
    with_callbacks(self.intent, self.callbacks \o << <<success, error>> >>)

on_success(self, callback) == on(self, callback, NoneV)

on_error(self, callback) == on(self, NoneV, callback)

after_success_only(self, callback) == on(self, callback, NoneV)

after(self, callback) == on(self, callback, callback)

parallel(effects) == Effect(ParallelEffects(effects))

\* ---------------------------------------------------- Effect objects, by reference
\* The same constructors on a heap of Python objects, to tell a new list from
\* a shared one: h.lists[l] is the content of list object l, h.effects[e] the
\* attributes of Effect object e (callbacks is a list object), h.last the
\* chain-extension call made last.  Each returns the heap and the new object.
NoCall == [self |-> 0, entry |-> <<>>, ret |-> 0]

EmptyHeap == [lists |-> <<>>, effects |-> <<>>, last |-> NoCall]

\* Effect(intent): self.intent = intent; self.callbacks = []
Effect__init__(h, intent) ==
    LET l == Len(h.lists) + 1
    IN [h |-> [h EXCEPT !.lists = Append(@, <<>>),
                        !.effects = Append(@, [intent |-> intent, callbacks |-> l])],
        ret |-> Len(h.effects) + 1]

\* eff = klass(intent); eff.callbacks = callbacks
Effect_with_callbacks(h, intent, callbacks) ==
    LET r == Effect__init__(h, intent)
    IN [h |-> [r.h EXCEPT !.effects[r.ret].callbacks = callbacks], ret |-> r.ret]

\* a + b for the list object a and the list display b: a new list object
list_add(h, a, b) ==
    [h |-> [h EXCEPT !.lists = Append(@, h.lists[a] \o b)],
     ret |-> Len(h.lists) + 1]

\* the list object a extended where it is (a += b)
list_add_in_place(h, a, b) ==
    [h |-> [h EXCEPT !.lists[a] = @ \o b], ret |-> a]

Effect_on_in_place(h, self, success, error) ==
    LET l == list_add_in_place(h, h.effects[self].callbacks, << <<success, error>> >>)
        r == Effect_with_callbacks(l.h, h.effects[self].intent, l.ret)
    IN [h |-> [r.h EXCEPT !.last = [self |-> self, entry |-> <<success, error>>,
                                    ret |-> r.ret]],
        ret |-> r.ret]

Effect_on(h, self, success, error) ==
    LET l == list_add(h, h.effects[self].callbacks, << <<success, error>> >>)
        r == Effect_with_callbacks(l.h, h.effects[self].intent, l.ret)
    IN [h |-> [r.h EXCEPT !.last = [self |-> self, entry |-> <<success, error>>,
                                    ret |-> r.ret]],
        ret |-> r.ret]

Effect_on_success(h, self, callback) == Effect_on(h, self, callback, NoneV)

Effect_on_error(h, self, callback) == Effect_on(h, self, NoneV, callback)

Effect_after(h, self, callback) == Effect_on(h, self, callback, callback)

\* the Effect value the object e of heap h stands for
Value(h, e) == with_callbacks(h.effects[e].intent, h.lists[h.effects[e].callbacks])

\* --------------------------------------------------------------- callbacks
\* A continuation is a function object; name tells the function objects
\* apart (the path of the chain entry it was attached at).
Fn(name, kind) == [t |-> "fn", name |-> name, kind |-> kind]
EffFn(name, e) == [t |-> "fn", name |-> name, kind |-> "eff", eff |-> e]

\* the continuations effect.twisted.perform attaches for the Deferred
\* of its call pid: d.callback, and the lambda that calls d.errback
d_callback(pid) == [t |-> "fn", name |-> <<>>, kind |-> "d.callback", pid |-> pid]
d_errback(pid) == [t |-> "fn", name |-> <<>>, kind |-> "d.errback", pid |-> pid]

\* what calling the user function f on value arg does: it returns or raises
Call(f, arg) ==
    CASE f.kind = "inc" ->
           IF arg.t = "int" THEN [raised |-> FALSE, v |-> IntV(arg.n + 1)]
           ELSE [raised |-> TRUE, v |-> Exc("TypeError", NoneV)]
      [] f.kind = "const" -> [raised |-> FALSE, v |-> IntV(0 - 1)]
      [] f.kind = "raise" -> [raised |-> TRUE, v |-> Exc("KeyError", NoneV)]
      [] f.kind = "eff" -> [raised |-> FALSE, v |-> f.eff]
      [] OTHER -> [raised |-> FALSE, v |-> NoneV]

_guard_swallow(f, arg) ==
    LET r == Call(f, arg) IN
    IF r.raised THEN <<FALSE, NoneV>> ELSE <<FALSE, r.v>>

_guard_always_error(f, arg) ==
    LET r == Call(f, arg) IN
    IF r.raised THEN <<TRUE, exc_info(r.v)>> ELSE <<TRUE, r.v>>

_guard(f, arg) ==
    LET r == Call(f, arg) IN
    IF r.raised THEN <<TRUE, exc_info(r.v)>> ELSE <<FALSE, r.v>>


\* -------------------------------------------------------------- dispatchers
\* What a dispatcher call does with the box it was given, as a record:
\*   k = "resolve": the box is resolved before the call returns, with result
\*   k = "raise":   the call raises exc and the box is left alone
\*   k = "hold":    the call returns with the box kept for later
\*   k = "parallel": the call runs perform_parallel with dispatcher
\* depth is how many engine calls deep the call went, dispatcher included.

\* a perform_effect made by synchronous_performer: func returns or raises,
\* and the wrapper puts that in the box (dispatcher is what func receives)
perform_effect(intent, dispatcher) ==
    IF intent.type = "Const"
    THEN [k |-> "resolve", result |-> <<FALSE, intent.v>>, depth |-> 5,
          passed |-> dispatcher]
    ELSE [k |-> "resolve", result |-> <<TRUE, exc_info(Exc("IOError", NoneV))>>,
          depth |-> 5, passed |-> dispatcher]

dispatch_method_fail_box(intent, dispatcher, box) ==
    IF intent.has_perform
    THEN perform_effect(intent, "default_dispatcher")
    ELSE [k |-> "resolve", depth |-> 4,
          result |-> <<TRUE, exc_info(NoEffectHandlerError(intent))>>]

dispatch_method(intent, dispatcher, box) ==
    IF intent.has_perform
    THEN perform_effect(intent, "default_dispatcher")
    ELSE [k |-> "raise", exc |-> NoEffectHandlerError(intent), depth |-> 2]

\* Python's call of dispatch_method with the actual arguments args: the
\* function takes exactly three positional parameters.
call_dispatch_method(args) ==
    IF Len(args) = 3
    THEN dispatch_method(args[1], args[2], args[3])
    ELSE [k |-> "raise", exc |-> Exc("TypeError", NoneV), depth |-> 1]

default_dispatcher_guarded(intent, box) ==
    LET r == call_dispatch_method(<<intent, "default_dispatcher", box>>) IN
    IF r.k = "raise"
    THEN [k |-> "resolve", result |-> <<TRUE, exc_info(r.exc)>>, depth |-> 3]
    ELSE r

default_dispatcher(intent, box) ==
    call_dispatch_method(<<intent, "default_dispatcher", box>>)

twisted_dispatcher(intent, box) ==
    IF intent.type = "ParallelEffects"
    THEN [k |-> "parallel", dispatcher |-> "twisted_dispatcher", depth |-> 2]
    ELSE LET r == call_dispatch_method(<<intent, "twisted_dispatcher">>) IN
         IF r.k = "raise"
         THEN [k |-> "resolve", result |-> <<TRUE, exc_info(r.exc)>>, depth |-> 3]
         ELSE [k |-> "resolve", result |-> <<FALSE, NoneV>>, depth |-> 3]

\* A dispatcher supplied by the caller of perform: it hands ParallelEffects
\* to perform_parallel with itself, keeps the box of an Async intent to
\* resolve it later, and does what default_dispatcher does otherwise.
deferring_dispatcher(intent, box) ==
    IF intent.type = "ParallelEffects"
    THEN [k |-> "parallel", dispatcher |-> "deferring_dispatcher", depth |-> 2]
    ELSE IF intent.type = "Async"
    THEN [k |-> "hold", depth |-> 1]
    ELSE call_dispatch_method(<<intent, "deferring_dispatcher", box>>)

Dispatch(dispatcher, intent, box) ==
    CASE dispatcher = "default_dispatcher" -> default_dispatcher(intent, box)
      [] dispatcher = "twisted_dispatcher" -> twisted_dispatcher(intent, box)
      [] OTHER -> deferring_dispatcher(intent, box)


\* ------------------------------------------------------------------- state
VARIABLES
    root,       \* what the caller built: the Effect, the perform it calls
                \* (effect.perform or effect.twisted.perform), the dispatcher
    phase,      \* "built" before the caller calls perform, "performing" after
    stack,      \* the call stack: trampoline and perform_parallel frames
    performs,   \* one record per perform call, the caller's first
    boxes,      \* every _Box made so far
    gathers,    \* every gatherResults Deferred made so far
    log,        \* the continuations invoked so far, in order
    raised,     \* the exception that left perform (or box.succeed) uncaught
    lost,       \* exceptions swallowed in a Deferred's callback chain
    maxdepth,   \* deepest nesting of engine calls so far
    heap        \* the Effect objects and callback lists the caller has built

vars == <<root, phase, stack, performs, boxes, gathers, log, raised, lost, maxdepth,
          heap>>

Max(a, b) == IF a >= b THEN a ELSE b

Top(s) == s[Len(s)]
Pop(s) == SubSeq(s, 1, Len(s) - 1)

\* ---------------------------------------------------------------- trampoline
NoWork == [f |-> "none"]

\* a running trampoline loop of perform call pid; the step functions it runs
\* are entered at depth base + 1
TrampFrame(pid, base, work) ==
    [k |-> "trampoline", pid |-> pid, base |-> base, work |-> work]

LiveFrames(stk, pid) ==
    {i \in 1..Len(stk) : stk[i].k = "trampoline" /\ stk[i].pid = pid}

\* bouncer.bounce(func, *args), called at depth d for the trampoline of
\* perform call pid: while that loop is running a step the work is left for
\* the loop to pick up once the step has returned; once the loop has ended
\* the work starts a loop of its own.
bounce(stk, pid, d, work) ==
    IF LiveFrames(stk, pid) # {}
    THEN LET i == CHOOSE i \in LiveFrames(stk, pid) :
                      \A j \in LiveFrames(stk, pid) : j <= i
         IN [stk EXCEPT ![i].work = work]
    ELSE Append(stk, TrampFrame(pid, d + 1, work))

\* the same step made by a plain call at depth d instead of a bounce: the
\* callee runs on top of the caller's frames
direct_call(stk, pid, d, work) ==
    IF LiveFrames(stk, pid) # {}
    THEN LET i == CHOOSE i \in LiveFrames(stk, pid) :
                      \A j \in LiveFrames(stk, pid) : j <= i
         IN [stk EXCEPT ![i].work = work, ![i].base = d - 1]
    ELSE Append(stk, TrampFrame(pid, d + 1, work))

\* ----------------------------------------------------------------------- _Box
\* the box _perform makes for effect: more is the chain its continuation
\* "run effect's callback chain against the result" walks; passed is the
\* dispatcher the intent's perform_effect was called with, if it was called
Box_outer_effect(pid, effect) ==
    [pid |-> pid, intent |-> effect.intent,
     more |-> IF performs[pid].api = "effect.twisted.perform"
              THEN performs[pid].effect.callbacks \o
                     << <<d_callback(pid), d_errback(pid)>> >>
              ELSE performs[pid].effect.callbacks,
     resolved |-> 0, result |-> NoResult, held |-> FALSE,
     passed |-> "nothing"]

Box(pid, effect) ==
    [pid |-> pid, intent |-> effect.intent, more |-> effect.callbacks,
     resolved |-> 0, result |-> NoResult, held |-> FALSE,
     passed |-> "nothing"]

\* the box once its succeed or fail has been called with result
Resolved(box, result) == [box EXCEPT !.resolved = @ + 1, !.result = result]

\* box.succeed(result) and box.fail(result), called at depth d
succeed(stk, box, d, result) ==
    bounce(stk, box.pid, d + 1,
           [f |-> "more", chain |-> box.more, result |-> <<FALSE, result>>])

fail(stk, box, d, result) ==
    bounce(stk, box.pid, d + 1,
           [f |-> "more", chain |-> box.more, result |-> <<TRUE, result>>])

\* the box resolved with the pair <<is_error, value>>
resolve(stk, box, d, result) ==
    IF result[1] THEN fail(stk, box, d, result[2])
    ELSE succeed(stk, box, d, result[2])


\* ----------------------------------------------------------------- Deferreds
Deferred == [t |-> "Deferred", called |-> 0, result |-> NoResult]

\* Failure(exc_value, exc_type, exc_tb)
Failure(value, type, tb) ==
    [t |-> "Failure", value |-> value, type |-> type, tb |-> tb]

\* d.callback(v) / d.errback(f): result is <<FALSE, v>> or <<TRUE, f>>
fire(d, result) == [d EXCEPT !.called = @ + 1, !.result = result]

\* the Deferred maybeDeferred makes of a call that raised exc
failed(exc) ==
    fire(Deferred, <<TRUE, Failure(exc, ExcType(exc), Traceback(exc))>>)

\* effect.twisted.perform(effect, dispatcher): the Effect it hands to
\* effect.perform, pid being the call whose Deferred it returns
twisted_perform_no_errback(effect, pid) ==
    on(effect, d_callback(pid), NoneV)

twisted_perform_first(effect, pid) ==
    with_callbacks(effect.intent,
                   << <<d_callback(pid), d_errback(pid)>> >> \o effect.callbacks)

twisted_perform(effect, pid) ==
    on(effect, d_callback(pid), d_errback(pid))

\* what the completion continuation f does to its Deferred when called on arg
completed(f, arg) ==
    IF f.kind = "d.callback" THEN <<FALSE, arg>>
    ELSE <<TRUE, Failure(arg.items[2], arg.items[1], arg.items[3])>>

\* gatherResults(ds): a DeferredList with fireOnOneErrback whose result is
\* the list of the values.  ds are the perform calls whose Deferreds it
\* watches, box the box deferred_to_box ties it to.
Gather(ds, box) ==
    [ds |-> ds, resultList |-> [i \in 1..Len(ds) |-> NoneV], finishedCount |-> 0,
     called |-> 0, result |-> NoResult, box |-> box]

FirstError(f, index) == Exc("FirstError", [subFailure |-> f, index |-> index])

_cbDeferred(g, index, result) ==
    LET g1 == [g EXCEPT !.resultList[index] = result[2], !.finishedCount = @ + 1]
    IN IF g.called # 0 THEN g1
       ELSE IF result[1]
       THEN LET e == FirstError(result[2], index)
            IN [g1 EXCEPT !.called = 1,
                          !.result = <<TRUE, Failure(e, ExcType(e), NoneV)>>]
       ELSE IF g1.finishedCount = Len(g1.ds)
       THEN [g1 EXCEPT !.called = 1, !.result = <<FALSE, List(g1.resultList)>>]
       ELSE g1

\* the callbacks gatherResults adds run at once, in list order, on the
\* Deferreds that have fired already
RECURSIVE AddFired(_, _, _)
AddFired(g, pf, i) ==
    IF i > Len(g.ds) THEN g
    ELSE LET d == pf[g.ds[i]].d
         IN AddFired(IF d.called > 0 THEN _cbDeferred(g, i, d.result) ELSE g, pf, i + 1)

gatherResults(ds, box, pf) ==
    LET g == Gather(ds, box)
    IN IF Len(ds) = 0
       THEN [g EXCEPT !.called = 1, !.result = <<FALSE, List(<<>>)>>]
       ELSE AddFired(g, pf, 1)

\* deferred_to_box: what the fired Deferred's result puts in the box
deferred_to_box_succeed_only(result) == <<FALSE, result[2]>>

deferred_to_box(result) ==
    IF result[1]
    THEN <<TRUE, [t |-> "tuple",
                  items |-> <<result[2].value, result[2].type, result[2].tb>>]>>
    ELSE result


\* ------------------------------------------------------------------ perform
\* the Effect _run_callbacks performs in place of an Effect value
splice_outer_first(value, chain) ==
    with_callbacks(value.intent, chain \o value.callbacks)

splice(value, chain) ==
    with_callbacks(value.intent, value.callbacks \o chain)

\* chain[0][is_error]
select_swapped(entry, is_error) == entry[IF is_error THEN 1 ELSE 2]

select(entry, is_error) == entry[IF is_error THEN 2 ELSE 1]

rest(chain) == Tail(chain)

\* the same with the test for an exhausted chain made first
_run_callbacks_empty_first(chain, result) ==
    LET is_error == result[1]
        value == result[2]
    IN IF chain = <<>>
       THEN [k |-> "return", invoked |-> NoneV]
       ELSE IF value.t = "Effect"
       THEN [k |-> "bounce", invoked |-> NoneV,
             work |-> [f |-> "_perform", effect |-> splice(value, chain)]]
       ELSE LET cb == select(chain[1], is_error)
            IN [k |-> "bounce", invoked |-> cb,
                work |-> [f |-> "_run_callbacks", chain |-> rest(chain),
                          result |-> IF cb # NoneV THEN _guard(cb, value)
                                     ELSE result]]

\* _run_callbacks(bouncer, chain, result): what one call decides.
\*   k = "bounce": work is the step it bounces; k = "return": it returns
\*   without bouncing.  invoked is the continuation it called, if any.
_run_callbacks(chain, result) ==
    LET is_error == result[1]
        value == result[2]
    IN IF value.t = "Effect"
       THEN [k |-> "bounce", invoked |-> NoneV,
             work |-> [f |-> "_perform", effect |-> splice(value, chain)]]
       ELSE IF chain = <<>>
       THEN [k |-> "return", invoked |-> NoneV]
       ELSE LET cb == select(chain[1], is_error)
            IN [k |-> "bounce", invoked |-> cb,
                work |-> [f |-> "_run_callbacks", chain |-> rest(chain),
                          result |-> IF cb # NoneV THEN _guard(cb, value)
                                     ELSE result]]

\* how _run_callbacks hands its next step on, from depth d
schedule_direct(stk, pid, d, work) == direct_call(stk, pid, d, work)

\* the next step computed and never handed on
schedule_forgotten(stk, pid, d, work) == stk

schedule(stk, pid, d, work) == bounce(stk, pid, d, work)

\* one call perform(effect, dispatcher) of api: terminal is the result the
\* walk of the caller's chain ended with, ended how often the walk found the
\* chain empty, d the Deferred effect.twisted.perform returns
PerformRecord(api, effect, dispatcher) ==
    [api |-> api, effect |-> effect, dispatcher |-> dispatcher,
     terminal |-> NoResult, ended |-> 0,
     d |-> IF api = "effect.twisted.perform" THEN Deferred ELSE NoneV]

\* the list perform_parallel builds, one Deferred per child in turn
collected_front(ds, pid) == <<pid>> \o ds

collected(ds, pid) == Append(ds, pid)

\* perform_parallel(parallel, dispatcher, box) in progress at depth depth:
\* effects[i] is the next child to perform, ds the calls made so far
ParFrame(box, effects, dispatcher, depth) ==
    [k |-> "perform_parallel", box |-> box, effects |-> effects,
     dispatcher |-> dispatcher, depth |-> depth, i |-> 1, ds |-> <<>>]

\* The caller calls perform(root.effect, root.dispatcher).
Perform ==
    /\ phase = "built"
    /\ phase' = "performing"
    /\ performs' = <<PerformRecord(root.api, root.effect, root.dispatcher)>>
    /\ IF root.api = "effect.twisted.perform"
       THEN /\ stack' = <<TrampFrame(1, 3, [f |-> "_perform",
                                           effect |-> twisted_perform(root.effect, 1)])>>
            /\ maxdepth' = 3
       ELSE /\ stack' = <<TrampFrame(1, 2, [f |-> "_perform", effect |-> root.effect])>>
            /\ maxdepth' = 2
    /\ UNCHANGED <<heap, root, boxes, gathers, log, raised, lost>>

\* An exception exc leaves the trampoline of call pid, whose frame is
\* already off stk: it reaches the caller of perform (or of box.succeed),
\* or maybeDeferred in perform_parallel, or the Deferred whose callback ran
\* the loop.
Unwind(stk, pid, exc) ==
    IF stk = <<>>
    THEN [stack |-> stk, performs |-> performs, raised |-> Append(raised, exc),
          lost |-> lost]
    ELSE IF Top(stk).k = "perform_parallel"
    THEN [stack |-> [stk EXCEPT ![Len(stk)].i = @ + 1,
                                ![Len(stk)].ds = collected(@, pid)],
          performs |-> [performs EXCEPT ![pid].d = failed(exc)],
          raised |-> raised, lost |-> lost]
    ELSE [stack |-> stk, performs |-> performs, raised |-> raised,
          lost |-> Append(lost, exc)]

\* One trampoline step running _perform(bouncer, effect).
StepPerform ==
    /\ stack # <<>>
    /\ Top(stack).k = "trampoline"
    /\ Top(stack).work.f = "_perform"
    /\ LET fr == Top(stack)
           effect == fr.work.effect
           b == Len(boxes) + 1
           box == Box(fr.pid, effect)
           o == Dispatch(performs[fr.pid].dispatcher, effect.intent, b)
           deep == fr.base + 1 + o.depth
           cleared == [stack EXCEPT ![Len(stack)].work = NoWork]
       IN /\ maxdepth' = Max(maxdepth, deep)
          /\ CASE o.k = "resolve" ->
                    /\ boxes' = Append(boxes,
                                       [Resolved(box, o.result) EXCEPT
                                          !.passed = IF "passed" \in DOMAIN o
                                                     THEN o.passed ELSE "nothing"])
                    /\ stack' = resolve(cleared, box, deep - 1, o.result)
                    /\ UNCHANGED <<performs, raised, lost>>
               [] o.k = "hold" ->
                    /\ boxes' = Append(boxes, [box EXCEPT !.held = TRUE])
                    /\ stack' = cleared
                    /\ UNCHANGED <<performs, raised, lost>>
               [] o.k = "parallel" ->
                    /\ boxes' = Append(boxes, box)
                    /\ stack' = Append(cleared,
                                       ParFrame(b, effect.intent.effects,
                                                o.dispatcher, fr.base + 3))
                    /\ UNCHANGED <<performs, raised, lost>>
               [] OTHER ->
                    LET u == Unwind(Pop(stack), fr.pid, o.exc)
                    IN /\ boxes' = Append(boxes, box)
                       /\ stack' = u.stack
                       /\ performs' = u.performs
                       /\ raised' = u.raised
                       /\ lost' = u.lost
    /\ UNCHANGED <<heap, root, phase, gathers, log>>


\* The Deferred of perform call pid fires with result, from a callback
\* called at depth d.  A gatherResults watching it takes the result, and
\* when that fires its own Deferred deferred_to_box resolves the box.
Fired(pf, gs, bx, stk, pid, result, d) ==
    LET pf1 == [pf EXCEPT ![pid].d = fire(@, result)]
        G == {g \in 1..Len(gs) : \E i \in 1..Len(gs[g].ds) : gs[g].ds[i] = pid}
    IN IF G = {}
       THEN [performs |-> pf1, gathers |-> gs, boxes |-> bx, stack |-> stk, deep |-> d]
       ELSE LET g == CHOOSE g \in G : TRUE
                i == CHOOSE i \in 1..Len(gs[g].ds) : gs[g].ds[i] = pid
                g1 == _cbDeferred(gs[g], i, result)
                r == deferred_to_box(g1.result)
                at == d + (IF r[1] THEN 2 ELSE 1)
            IN IF g1.called > gs[g].called
               THEN [performs |-> pf1, gathers |-> [gs EXCEPT ![g] = g1],
                     boxes |-> [bx EXCEPT ![g1.box] = Resolved(@, r)],
                     stack |-> resolve(stk, bx[g1.box], at, r),
                     deep |-> at + 2]
               ELSE [performs |-> pf1, gathers |-> [gs EXCEPT ![g] = g1],
                     boxes |-> bx, stack |-> stk, deep |-> d]

IsCompletion(f) == f.kind \in {"d.callback", "d.errback"}

\* One trampoline step running _run_callbacks(bouncer, chain, result),
\* directly or through the continuation a box was given.
StepRunCallbacks ==
    /\ stack # <<>>
    /\ Top(stack).k = "trampoline"
    /\ Top(stack).work.f \in {"more", "_run_callbacks"}
    /\ LET fr == Top(stack)
           w == fr.work
           rc == fr.base + (IF w.f = "more" THEN 2 ELSE 1)
           dec == _run_callbacks(w.chain, w.result)
           cleared == [stack EXCEPT ![Len(stack)].work = NoWork]
           ended == [performs EXCEPT ![fr.pid].terminal = w.result]
       IN IF dec.k = "return"
          THEN /\ stack' = cleared
               /\ performs' = [(IF performs[fr.pid].terminal = NoResult THEN ended
                                 ELSE performs) EXCEPT ![fr.pid].ended = @ + 1]
               /\ maxdepth' = Max(maxdepth, rc)
               /\ UNCHANGED <<boxes, gathers, log>>
          ELSE LET stk == schedule(cleared, fr.pid, rc + 1, dec.work)
                   cb == dec.invoked
               IN IF cb = NoneV
                  THEN /\ stack' = stk
                       /\ maxdepth' = Max(maxdepth, rc + 1)
                       /\ UNCHANGED <<performs, boxes, gathers, log>>
                  ELSE /\ log' = Append(log, [pid |-> fr.pid, name |-> cb.name,
                                              kind |-> cb.kind,
                                              is_error |-> w.result[1],
                                              arg |-> w.result[2],
                                              out |-> dec.work.result])
                       /\ IF IsCompletion(cb)
                          THEN LET x == Fired(ended, gathers, boxes, stk, cb.pid,
                                              completed(cb, w.result[2]), rc + 2)
                               IN /\ stack' = x.stack
                                  /\ performs' = x.performs
                                  /\ gathers' = x.gathers
                                  /\ boxes' = x.boxes
                                  /\ maxdepth' = Max(maxdepth, x.deep)
                          ELSE /\ stack' = stk
                               /\ maxdepth' = Max(maxdepth, rc + 2)
                               /\ UNCHANGED <<performs, boxes, gathers>>
    /\ UNCHANGED <<heap, root, phase, raised, lost>>

\* The trampoline loop finds no step bounced and returns.  In
\* perform_parallel that is the child's perform returning its Deferred.
Return ==
    /\ stack # <<>>
    /\ Top(stack).k = "trampoline"
    /\ Top(stack).work = NoWork
    /\ LET stk == Pop(stack)
       IN stack' = IF stk # <<>> /\ Top(stk).k = "perform_parallel"
                   THEN [stk EXCEPT ![Len(stk)].i = @ + 1,
                                    ![Len(stk)].ds = collected(@, Top(stack).pid)]
                   ELSE stk
    /\ UNCHANGED <<heap, root, phase, performs, boxes, gathers, log, raised, lost, maxdepth>>

\* perform_parallel performs its next child: maybeDeferred(perform, e, dispatcher)
ParNext ==
    /\ stack # <<>>
    /\ Top(stack).k = "perform_parallel"
    /\ Top(stack).i <= Len(Top(stack).effects)
    /\ LET par == Top(stack)
           pid == Len(performs) + 1
       IN /\ performs' = Append(performs,
                                PerformRecord("effect.twisted.perform", par.effects[par.i],
                                              par.dispatcher))
          /\ stack' = Append(stack,
                             TrampFrame(pid, par.depth + 3,
                                        [f |-> "_perform",
                                         effect |-> twisted_perform(par.effects[par.i], pid)]))
          /\ maxdepth' = Max(maxdepth, par.depth + 3)
    /\ UNCHANGED <<heap, root, phase, boxes, gathers, log, raised, lost>>

\* perform_parallel has performed every child: gatherResults, deferred_to_box
ParGather ==
    /\ stack # <<>>
    /\ Top(stack).k = "perform_parallel"
    /\ Top(stack).i > Len(Top(stack).effects)
    /\ LET par == Top(stack)
           g == gatherResults(par.ds, par.box, performs)
           r == deferred_to_box(g.result)
           at == par.depth + (IF r[1] THEN 3 ELSE 2)
       IN /\ gathers' = Append(gathers, g)
          /\ IF g.called > 0
             THEN /\ stack' = resolve(Pop(stack), boxes[par.box], at, r)
                  /\ boxes' = [boxes EXCEPT ![par.box] = Resolved(@, r)]
                  /\ maxdepth' = Max(maxdepth, at + 1)
             ELSE /\ stack' = Pop(stack)
                  /\ UNCHANGED <<boxes, maxdepth>>
    /\ UNCHANGED <<heap, root, phase, performs, log, raised, lost>>

\* what the caller's dispatcher may put in the box it kept for intent
Resolutions(intent) ==
    {<<FALSE, IntV(intent.k)>>, <<TRUE, exc_info(Exc("IOError", NoneV))>>}

\* With the engine idle, the caller's dispatcher resolves a box it kept.
ResolveBox ==
    /\ stack = <<>>
    /\ \E b \in 1..Len(boxes) :
         /\ boxes[b].held
         /\ boxes[b].resolved = 0
         /\ \E r \in Resolutions(boxes[b].intent) :
              /\ stack' = resolve(stack, boxes[b], 1, r)
              /\ boxes' = [boxes EXCEPT ![b] = Resolved(@, r)]
    /\ maxdepth' = Max(maxdepth, 3)
    /\ UNCHANGED <<heap, root, phase, performs, gathers, log, raised, lost>>


\* --------------------------------------------------- the Effects a caller builds
\* Effects a continuation attached at path p may return; their own
\* continuations are named by the paths below p.
Leaf(p) == on_error(Effect(FailIntent), Fn(p \o <<1>>, "const"))

Bare(p) == Effect(ConstIntent(IntV(5)))

Unhandled(p) ==
    on_success(on_error(Effect(RawIntent), Fn(p \o <<1>>, "const")),
               Fn(p \o <<2>>, "inc"))

Deep(p) ==
    after(on_success(Effect(ConstIntent(IntV(20))),
                     EffFn(p \o <<1>>, Leaf(p \o <<1>>))),
          Fn(p \o <<2>>, "inc"))

Later(p) == on_success(Effect(AsyncIntent(7)), Fn(p \o <<1>>, "inc"))

\* the chain-extension calls a caller may make for entry p of a chain
EntryOptions(p) ==
    { <<"on_success", Fn(p, "inc")>>,
      <<"on_success", Fn(p, "raise")>>,
      <<"on_success", EffFn(p, Deep(p))>>,
      <<"on_success", EffFn(p, Bare(p))>>,
      <<"on_error", Fn(p, "const")>>,
      <<"on_error", EffFn(p, Unhandled(p))>>,
      <<"after", Fn(p, "inc")>>,
      <<"after", Fn(p, "const")>>,
      <<"after", EffFn(p, Later(p))>> }

Attach(e, op, f) ==
    CASE op = "on_success" -> on_success(e, f)
      [] op = "on_error" -> on_error(e, f)
      [] OTHER -> after(e, f)

\* every Effect got from those in E by one more chain-extension call
Extend(E, i) ==
    {Attach(e, o[1], o[2]) : e \in E, o \in EntryOptions(<<i>>)}

RECURSIVE Extended(_, _)
Extended(E, i) ==
    IF i > MaxChain THEN E ELSE E \cup Extended(Extend(E, i), i + 1)

\* the children a caller may give parallel() at position i
ChildEffects(i) ==
    { Effect(AsyncIntent(i)),
      on_success(Effect(ConstIntent(IntV(i))), Fn(<<1>>, "inc")),
      Effect(RawIntent) }

RECURSIVE ChildLists(_)
ChildLists(n) ==
    IF n = 0 THEN {<<>>}
    ELSE ChildLists(n - 1) \cup
         {Append(s, c) : s \in {x \in ChildLists(n - 1) : Len(x) = n - 1},
                         c \in ChildEffects(n)}

ParallelRoots ==
    LET P == {parallel(s) : s \in ChildLists(MaxChildren)}
    IN P \cup {on_error(e, Fn(<<1>>, "const")) : e \in P}
         \cup {on_success(e, EffFn(<<1>>, Unhandled(<<1>>))) : e \in P}

\* which perform the caller calls, with which dispatcher, on which intent
Scenarios ==
    { <<"effect.perform", "default_dispatcher", ConstIntent(IntV(0))>>,
      <<"effect.perform", "default_dispatcher", FailIntent>>,
      <<"effect.perform", "default_dispatcher", RawIntent>>,
      <<"effect.perform", "default_dispatcher", ConstIntent(Leaf(<<0>>))>>,
      <<"effect.perform", "deferring_dispatcher", AsyncIntent(1)>>,
      <<"effect.twisted.perform", "twisted_dispatcher", ConstIntent(IntV(0))>>,
      <<"effect.twisted.perform", "twisted_dispatcher", RawIntent>>,
      <<"effect.twisted.perform", "deferring_dispatcher", AsyncIntent(1)>>,
      <<"effect.twisted.perform", "deferring_dispatcher", FailIntent>> }

Roots ==
    UNION {{[api |-> sc[1], dispatcher |-> sc[2], effect |-> e] :
                e \in Extended({Effect(sc[3])}, 1)} : sc \in Scenarios}
    \cup
    {[api |-> a[1], dispatcher |-> a[2], effect |-> e] :
        a \in {<<"effect.twisted.perform", "twisted_dispatcher">>,
               <<"effect.twisted.perform", "deferring_dispatcher">>,
               <<"effect.perform", "deferring_dispatcher">>},
        e \in ParallelRoots}

\* --------------------------------------------------------------------- Spec
Init ==
    /\ root \in Roots
    /\ phase = "built"
    /\ stack = <<>>
    /\ performs = <<>>
    /\ boxes = <<>>
    /\ gathers = <<>>
    /\ log = <<>>
    /\ raised = <<>>
    /\ lost = <<>>
    /\ maxdepth = 0
    /\ heap = EmptyHeap

Next ==
    \/ Perform
    \/ StepPerform
    \/ StepRunCallbacks
    \/ Return
    \/ ParNext
    \/ ParGather
    \/ ResolveBox

Spec == Init /\ [][Next]_vars

\* ------------------------------------------------------- building Effects
\* A caller making Effects and extending their chains, nothing performed.
BuildIntents == {ConstIntent(IntV(0)), RawIntent}

BuildCallbacks == {NoneV, Fn(<<1>>, "inc")}

InitBuild ==
    /\ heap = EmptyHeap
    /\ root = NoneV
    /\ phase = "building"
    /\ stack = <<>>
    /\ performs = <<>>
    /\ boxes = <<>>
    /\ gathers = <<>>
    /\ log = <<>>
    /\ raised = <<>>
    /\ lost = <<>>
    /\ maxdepth = 0

\* Effect(intent)
NewEffect ==
    /\ Len(heap.effects) < MaxEffects
    /\ \E intent \in BuildIntents :
         heap' = [Effect__init__(heap, intent).h EXCEPT !.last = NoCall]
    /\ UNCHANGED <<root, phase, stack, performs, boxes, gathers, log, raised, lost,
                   maxdepth>>

\* self.on(success, error), self.on_success(cb), self.on_error(cb), self.after(cb)
ChainExtend ==
    /\ Len(heap.effects) < MaxEffects
    /\ \E self \in 1..Len(heap.effects) :
         \/ \E success \in BuildCallbacks, error \in BuildCallbacks :
              heap' = Effect_on(heap, self, success, error).h
         \/ \E callback \in BuildCallbacks \ {NoneV} :
              \/ heap' = Effect_on_success(heap, self, callback).h
              \/ heap' = Effect_on_error(heap, self, callback).h
              \/ heap' = Effect_after(heap, self, callback).h
    /\ UNCHANGED <<root, phase, stack, performs, boxes, gathers, log, raised, lost,
                   maxdepth>>

NextBuild ==
    \/ NewEffect
    \/ ChainExtend

SpecBuild == InitBuild /\ [][NextBuild]_vars


\* ------------------------------------------------------------------- claims
\* nothing is running and no box is waiting to be resolved
Quiet ==
    /\ phase = "performing"
    /\ stack = <<>>
    /\ \A b \in 1..Len(boxes) : boxes[b].resolved > 0

\* the log entries of the continuations the caller attached (the
\* continuations effect.twisted.perform adds have the empty name)
UserEntries == {a \in 1..Len(log) : log[a].name # <<>>}

\* path p comes before path q when the chain entries are walked in
\* attachment order, an entry's own Effect right after the entry
Precedes(p, q) ==
    \/ Len(p) < Len(q) /\ \A i \in 1..Len(p) : p[i] = q[i]
    \/ \E i \in 1..Len(p) :
         /\ i <= Len(q)
         /\ p[i] < q[i]
         /\ \A j \in 1..(i - 1) : p[j] = q[j]

\* C1: the continuations of the chain an Effect was performed with are
\* invoked in attachment order: of two invocations, the earlier one is of
\* the entry attached earlier, and each invoked continuation is the one its
\* entry holds for the tag of the result it was invoked with.
C1_Ordering ==
    /\ \A a, b \in UserEntries :
         (/\ a < b
          /\ log[a].pid = log[b].pid
          /\ Len(log[a].name) = 1
          /\ Len(log[b].name) = 1) => log[a].name[1] < log[b].name[1]
    /\ \A a \in UserEntries :
         Len(log[a].name) = 1 =>
            LET e == performs[log[a].pid].effect.callbacks[log[a].name[1]]
                f == IF log[a].is_error THEN e[2] ELSE e[1]
            IN f # NoneV /\ f.name = log[a].name /\ f.kind = log[a].kind

\* both entries of a two-entry chain have been invoked, the first on a
\* success and the second on the failure the first raised
C1_Witness ==
    /\ Len(root.effect.callbacks) = 2
    /\ Len(log) = 2
    /\ log[1].name = <<1>> /\ log[1].kind = "raise" /\ ~log[1].is_error
    /\ log[2].name = <<2>> /\ log[2].kind = "const" /\ log[2].is_error

\* the entries of the chain of call pid that follow the entry named <<i>>,
\* as perform was given them
Remaining(pid, i) ==
    LET given == performs[pid].effect
        chain == IF performs[pid].api = "effect.twisted.perform"
                 THEN given.callbacks \o
                        << <<d_callback(pid), d_errback(pid)>> >>
                 ELSE given.callbacks
    IN SubSeq(chain, i + 1, Len(chain))

\* C2: when a continuation returns an Effect, that Effect is dispatched and
\* its own continuations run before the rest of the outer chain, at every
\* nesting depth (invocations happen in the order C1..Ci, D1..Dm,
\* Ci+1..Cn), and the Effect dispatched has the returned Effect's intent
\* and its chain followed by the remaining outer entries.
C2_Flattening ==
    /\ \A a, b \in UserEntries :
         (a < b /\ log[a].pid = log[b].pid) => Precedes(log[a].name, log[b].name)
    /\ \A a, c \in 1..Len(log) :
         (/\ a < c
          /\ log[a].pid = log[c].pid
          /\ log[a].out[2].t = "Effect"
          /\ Len(log[a].name) = 1) =>
            \E b \in 1..Len(boxes) :
                /\ boxes[b].pid = log[a].pid
                /\ boxes[b].intent = log[a].out[2].intent
                /\ boxes[b].more = log[a].out[2].callbacks \o
                                     Remaining(log[a].pid, log[a].name[1])

\* entry 1 returned an Effect whose own entry returned an Effect in turn;
\* the continuations of both ran, and then entry 2 of the outer chain
C2_Witness ==
    /\ Len(log) >= 4
    /\ log[1].name = <<1>> /\ log[1].kind = "eff"
    /\ log[2].name = <<1, 1>> /\ log[2].kind = "eff"
    /\ log[3].name = <<1, 1, 1>>
    /\ log[4].name = <<1, 2>>
    /\ \E a \in 5..Len(log) : log[a].name = <<2>>

\* C3: with every box resolved at most once, no continuation of any chain
\* entry is invoked more than once, entries carried into spliced Effects
\* included, and the walk of a chain reaches its end at most once.
C3_ExactlyOnce ==
    (\A b \in 1..Len(boxes) : boxes[b].resolved <= 1) =>
        /\ \A a, b \in 1..Len(log) :
             (a # b /\ log[a].pid = log[b].pid) => log[a].name # log[b].name
        /\ \A p \in 1..Len(performs) : performs[p].ended <= 1

\* a chain whose first entry returned an Effect has been walked to its
\* end: every continuation that ran did so once
C3_Witness ==
    /\ Quiet
    /\ raised = <<>>
    /\ performs[1].ended = 1
    /\ Len(root.effect.callbacks) = 2
    /\ \E a, b \in UserEntries :
         /\ log[a].name = <<1>> /\ log[a].kind = "eff"
         /\ log[b].name = <<2>>
    /\ \A b \in 1..Len(boxes) : boxes[b].resolved = 1


\* C4: an intent without a perform capability, performed with the default
\* dispatcher, makes perform raise NoEffectHandlerError naming that intent:
\* the failure is put in no box, so no continuation of the chain is invoked
\* (on_error and after included) and the walk of the chain never starts.
C4_NoHandlerRaises ==
    (/\ phase = "performing"
     /\ stack = <<>>
     /\ root.dispatcher = "default_dispatcher"
     /\ ~root.effect.intent.has_perform) =>
        /\ raised = <<NoEffectHandlerError(root.effect.intent)>>
        /\ log = <<>>
        /\ performs[1].terminal = NoResult
        /\ \A b \in 1..Len(boxes) : boxes[b].resolved = 0

\* perform has raised for a chain whose first entry holds an error
\* continuation
C4_Witness ==
    /\ raised = <<NoEffectHandlerError(RawIntent)>>
    /\ root.dispatcher = "default_dispatcher"
    /\ Len(root.effect.callbacks) >= 1
    /\ root.effect.callbacks[1][2] # NoneV

\* C4 as claimed: the no-handler failure is injected into the chain, so an
\* on_error continuation returning a fallback makes the terminal outcome
\* that fallback, as a success.
C4_AsClaimed ==
    (/\ phase = "performing"
     /\ stack = <<>>
     /\ root.dispatcher = "default_dispatcher"
     /\ root.effect = on_error(Effect(RawIntent), Fn(<<1>>, "const"))) =>
        performs[1].terminal = <<FALSE, IntV(0 - 1)>>

\* C5: a failure the walk of the caller's chain ends with is not altered,
\* but effect.perform returns nothing and drops it; it reaches the caller
\* only through effect.twisted.perform, whose Deferred errbacks with a
\* Failure made of that descriptor.
C5_TerminalFailure ==
    \A p \in 1..Len(performs) :
        (performs[p].terminal # NoResult /\ performs[p].terminal[1]) =>
            IF performs[p].api = "effect.twisted.perform"
            THEN LET e == performs[p].terminal[2].items
                 IN /\ performs[p].d.called = 1
                    /\ performs[p].d.result = <<TRUE, Failure(e[2], e[1], e[3])>>
            ELSE performs[p].d = NoneV /\ raised = <<>>

\* a continuation raised, nothing handled the failure, and the Deferred of
\* effect.twisted.perform has fired with it
C5_Witness ==
    /\ phase = "performing"
    /\ performs[1].api = "effect.twisted.perform"
    /\ performs[1].terminal = <<TRUE, exc_info(Exc("KeyError", NoneV))>>
    /\ performs[1].d.called = 1
    /\ performs[1].d.result[1]

\* C5 as claimed: the failure the chain ends with is surfaced to the caller
\* of perform, whichever perform was called.
C5_AsClaimed ==
    (/\ phase = "performing"
     /\ stack = <<>>
     /\ performs[1].terminal # NoResult
     /\ performs[1].terminal[1]) =>
        \/ raised # <<>>
        \/ /\ performs[1].d # NoneV
           /\ performs[1].d.called = 1
           /\ performs[1].d.result[1]

\* C6: the nesting of engine calls stays below a constant whatever the
\* length of the chain and the number of Effects spliced in, the box being
\* resolved inside the dispatch call or later: 9 calls deep for a perform
\* without ParallelEffects, 6 more for the perform calls of its children.
C6_StackBounded ==
    maxdepth <= (IF root.effect.intent.type = "ParallelEffects" THEN 15 ELSE 9)

\* a chain of MaxChain entries with two Effects spliced in has been walked
\* to its end, every box resolved inside its dispatch call
C6_Witness ==
    /\ Quiet
    /\ root.dispatcher = "default_dispatcher"
    /\ Len(root.effect.callbacks) = MaxChain
    /\ Len(boxes) >= 3
    /\ Len(log) >= 5
    /\ performs[1].ended = 1

\* the trampoline step about to run is _run_callbacks on a result that is no
\* Effect, at an entry that holds no continuation for the result's tag
AtAbsent ==
    /\ stack # <<>>
    /\ Top(stack).k = "trampoline"
    /\ Top(stack).work.f \in {"more", "_run_callbacks"}
    /\ Top(stack).work.result[2].t # "Effect"
    /\ Top(stack).work.chain # <<>>
    /\ Top(stack).work.chain[1][IF Top(stack).work.result[1] THEN 2 ELSE 1] = NoneV

\* C7: at an entry whose continuation for the current tag is absent, the
\* value and the tag go on to the next entry unchanged and no continuation
\* is invoked.
C7_PassThrough ==
    [][AtAbsent =>
          /\ log' = log
          /\ Len(stack') = Len(stack)
          /\ stack'[Len(stack)].work =
                [f |-> "_run_callbacks",
                 chain |-> Tail(Top(stack).work.chain),
                 result |-> Top(stack).work.result]]_vars

\* a success went past an on_error entry: the success continuation of
\* the entry after it received the value the intent was resolved with
C7_Witness ==
    /\ phase = "performing"
    /\ root.effect.intent.type = "Const"
    /\ Len(root.effect.callbacks) = 2
    /\ root.effect.callbacks[1][1] = NoneV
    /\ Len(log) >= 1
    /\ log[1].name = <<2>>
    /\ ~log[1].is_error
    /\ log[1].arg = root.effect.intent.v

\* the exception the invocation logged at a raised, if it raised
RaisedBy(a) ==
    IF log[a].kind = "raise" THEN {Exc("KeyError", NoneV)}
    ELSE IF log[a].kind = "inc" /\ log[a].arg.t # "int" THEN {Exc("TypeError", NoneV)}
    ELSE {}

\* C8: when a continuation raises, perform goes on: the result becomes a
\* failure holding the exception's sys.exc_info(), no exception leaves
\* perform, and the next continuation invoked in that chain is an error
\* continuation, which receives that descriptor.
C8_ExceptionCapture ==
    \A a \in 1..Len(log) : \A e \in RaisedBy(a) :
        /\ log[a].out = <<TRUE, exc_info(e)>>
        /\ \A i \in 1..Len(raised) : raised[i] # e
        /\ \A b \in (a + 1)..Len(log) :
             (/\ log[b].pid = log[a].pid
              /\ \A c \in (a + 1)..(b - 1) : log[c].pid # log[a].pid) =>
                 log[b].is_error /\ log[b].arg = exc_info(e)

\* entry 1 raised on a success, the on_success entry 2 was passed by, and
\* the error continuation after it received the KeyError
C8_Witness ==
    /\ phase = "performing"
    /\ Len(root.effect.callbacks) = 2
    /\ root.effect.callbacks[2][1] # NoneV
    /\ root.effect.callbacks[2][2] = NoneV
    /\ Len(log) = 2
    /\ log[1].name = <<1>> /\ log[1].kind = "raise" /\ ~log[1].is_error
    /\ log[2].kind = "d.errback"
    /\ log[2].arg = exc_info(Exc("KeyError", NoneV))


\* the value the Deferred of a child given to parallel() fires with when
\* the child's intent is resolved with success
ChildValue(e) ==
    IF e.intent.type = "Const" THEN IntV(e.intent.v.n + 1)
    ELSE IntV(e.intent.k)

ParallelBoxes == {b \in 1..Len(boxes) : boxes[b].intent.type = "ParallelEffects"}

\* C9: the list a ParallelEffects box succeeds with holds the children's
\* results in the order the children were given to parallel(), in whatever
\* order their boxes were resolved.
C9_ParallelOrder ==
    \A b \in ParallelBoxes :
        (boxes[b].resolved >= 1 /\ ~boxes[b].result[1]) =>
            boxes[b].result[2] =
                List([i \in 1..Len(boxes[b].intent.effects) |->
                        ChildValue(boxes[b].intent.effects[i])])

\* three children succeeded, a later one before an earlier one, and the box
\* holds their list
C9_Witness ==
    /\ \E b \in ParallelBoxes :
         /\ Len(boxes[b].intent.effects) = 3
         /\ boxes[b].resolved = 1
         /\ ~boxes[b].result[1]
    /\ \E a, c \in 1..Len(log) :
         /\ a < c
         /\ log[a].kind = "d.callback" /\ log[c].kind = "d.callback"
         /\ log[a].pid > log[c].pid
         /\ log[c].pid > 1

\* the perform calls of the children of the gatherResults g that have
\* ended in failure
FailedChildren(g) ==
    {i \in 1..Len(gathers[g].ds) :
        /\ performs[gathers[g].ds[i]].d.called > 0
        /\ performs[gathers[g].ds[i]].d.result[1]}

\* C10: the box of a ParallelEffects intent is resolved at most once; once
\* perform_parallel has gathered the children, it is resolved with success
\* exactly when every child has succeeded, and with one aggregate failure
\* (a FirstError) as soon as a child has failed, however many fail.
C10_ParallelAggregate ==
    /\ \A b \in ParallelBoxes : boxes[b].resolved <= 1
    /\ \A g \in 1..Len(gathers) :
         LET box == boxes[gathers[g].box]
             n == Len(gathers[g].ds)
             done == {i \in 1..n : performs[gathers[g].ds[i]].d.called > 0}
         IN /\ FailedChildren(g) # {} =>
                 /\ box.resolved = 1
                 /\ box.result[1]
                 /\ box.result[2].items[1].cls = "FirstError"
            /\ (FailedChildren(g) = {} /\ done = 1..n) =>
                 box.resolved = 1 /\ ~box.result[1]
            /\ (FailedChildren(g) = {} /\ done # 1..n) => box.resolved = 0

\* two children have failed, the later one first, and the box was resolved
\* once, with the failure
C10_Witness ==
    \E g \in 1..Len(gathers) :
        /\ Cardinality(FailedChildren(g)) >= 2
        /\ boxes[gathers[g].box].resolved = 1
        /\ boxes[gathers[g].box].result[1]
        /\ \E a, c \in 1..Len(log) :
             /\ a < c
             /\ log[a].kind = "d.errback" /\ log[c].kind = "d.errback"
             /\ log[a].pid > log[c].pid
             /\ log[c].pid > 1

\* C11: a chain-extension call returns a new Effect object with the
\* receiver's intent and the receiver's chain plus the one entry given, at
\* the end; the intent and the chain of every Effect object there was before
\* the call are the same after it.
C11_ExtensionImmutable ==
    [][/\ \A e \in 1..Len(heap.effects) : Value(heap', e) = Value(heap, e)
       /\ heap'.last # NoCall =>
            LET c == heap'.last
            IN /\ c.ret = Len(heap.effects) + 1
               /\ Len(heap'.effects) = c.ret
               /\ Value(heap', c.ret).intent = Value(heap, c.self).intent
               /\ Value(heap', c.ret).callbacks =
                    Append(Value(heap, c.self).callbacks, c.entry)]_vars

\* one Effect has been extended twice: the two results differ in their last
\* entry and the receiver still has the chain it had
C11_Witness ==
    /\ Len(heap.effects) >= 4
    /\ \E a, b, c \in 1..Len(heap.effects) :
         /\ Len(Value(heap, a).callbacks) = 1
         /\ Len(Value(heap, b).callbacks) = 2
         /\ Len(Value(heap, c).callbacks) = 2
         /\ Value(heap, b).callbacks[1] = Value(heap, a).callbacks[1]
         /\ Value(heap, c).callbacks[1] = Value(heap, a).callbacks[1]
         /\ Value(heap, b).callbacks[2] # Value(heap, c).callbacks[2]
         /\ heap.last.self = a

\* the walk is about to handle the first entry of a non-empty chain with a
\* value that is no Effect
AtEntry ==
    /\ stack # <<>>
    /\ Top(stack).k = "trampoline"
    /\ Top(stack).work.f \in {"more", "_run_callbacks"}
    /\ Top(stack).work.result[2].t # "Effect"
    /\ Top(stack).work.chain # <<>>

\* C12: the entry after(cb) appends is the entry on(success=cb, error=cb)
\* appends, and when the walk reaches such an entry cb is invoked then, with
\* the current value, on a success and on a failure alike, and it has not
\* been invoked for that entry before.
C12_AfterBoth ==
    [][(/\ AtEntry
        /\ Top(stack).work.chain[1][1] # NoneV
        /\ after(Effect(NoneV), Top(stack).work.chain[1][1]).callbacks
             = <<Top(stack).work.chain[1]>>) =>
          LET w == Top(stack).work
              cb == w.chain[1][1]
          IN /\ after(Effect(NoneV), cb) = on(Effect(NoneV), cb, cb)
             /\ Len(log') = Len(log) + 1
             /\ log'[Len(log')].pid = Top(stack).pid
             /\ log'[Len(log')].name = cb.name
             /\ log'[Len(log')].is_error = w.result[1]
             /\ log'[Len(log')].arg = w.result[2]
             /\ \A a \in 1..Len(log) :
                  ~(log[a].pid = Top(stack).pid /\ log[a].name = cb.name)]_vars

\* two after entries have been passed, the first with a failure and the
\* second with the success its continuation made of it
C12_Witness ==
    /\ Quiet
    /\ Len(root.effect.callbacks) = 2
    /\ root.effect.callbacks[1] = <<Fn(<<1>>, "const"), Fn(<<1>>, "const")>>
    /\ root.effect.callbacks[2] = <<Fn(<<2>>, "inc"), Fn(<<2>>, "inc")>>
    /\ Len(log) >= 2
    /\ log[1].name = <<1>> /\ log[1].is_error
    /\ log[2].name = <<2>> /\ ~log[2].is_error /\ log[2].arg = IntV(0 - 1)

\* the continuations invoked so far in perform call p, and among them the
\* ones effect.twisted.perform attached for its Deferred
InvokedIn(p) == {a \in 1..Len(log) : log[a].pid = p}

Completions(p) == {a \in InvokedIn(p) : log[a].name = <<>>}

\* C13: the Deferred effect.twisted.perform returns fires at most once; once
\* the walk of the chain (spliced Effects included) has ended it has fired
\* exactly once, with the final value through callback when the walk ended
\* in success and with a Failure of the final failure through errback when
\* it ended in failure; and no continuation of the chain runs after it fired.
C13_DeferredOnce ==
    \A p \in 1..Len(performs) :
        performs[p].api = "effect.twisted.perform" =>
            LET d == performs[p].d
                t == performs[p].terminal
            IN /\ d.called <= 1
               /\ Cardinality(Completions(p)) <= 1
               /\ \A a \in Completions(p) :
                    /\ \A b \in InvokedIn(p) : b <= a
                    /\ t # NoResult
                    /\ log[a].is_error = t[1]
                    /\ log[a].arg = t[2]
               /\ t # NoResult =>
                    /\ d.called = 1
                    /\ Completions(p) # {}
                    /\ d.result[1] = t[1]
                    /\ ~t[1] => d.result[2] = t[2]
                    /\ t[1] => d.result[2] = Failure(t[2].items[2], t[2].items[1],
                                                     t[2].items[3])

\* a walk that went through spliced Effects after its box was resolved late
\* has ended in success and the Deferred has fired with the final value
C13_Witness ==
    /\ Quiet
    /\ root.api = "effect.twisted.perform"
    /\ root.effect.intent.type = "Async"
    /\ performs[1].d.called = 1
    /\ performs[1].d.result = <<FALSE, IntV(0)>>
    /\ \E a \in InvokedIn(1) : log[a].kind = "eff"
    /\ \E a \in Completions(1) : a = Len(log) /\ a >= 4

\* C14 as claimed: under twisted_dispatcher the box of an intent that has a
\* perform capability is resolved exactly once with the outcome of its
\* performer, as under default_dispatcher.
C14_AsClaimed ==
    \A b \in 1..Len(boxes) :
        (/\ performs[boxes[b].pid].dispatcher = "twisted_dispatcher"
         /\ boxes[b].intent.has_perform) =>
            /\ boxes[b].resolved = 1
            /\ boxes[b].result =
                 Dispatch("default_dispatcher", boxes[b].intent, b).result

\* what the continuation of log entry a did when it was called
Outcome(a) == Call(Fn(log[a].name, log[a].kind), log[a].arg)

\* log entry a is a continuation called with a failure that returned a value
\* that is no Effect
Recovered(a) ==
    /\ log[a].is_error
    /\ log[a].kind \in {"inc", "const"}
    /\ ~Outcome(a).raised

\* C15: after a continuation called with a failure has returned a value that
\* is no Effect, the result is a success with that value: the next
\* continuation invoked in that perform call is invoked with it as a
\* success (error-only entries in between are passed over), and when none
\* is left it is the outcome the walk ends with.
C15_Recovery ==
    \A a \in 1..Len(log) :
        Recovered(a) =>
            LET later == {b \in InvokedIn(log[a].pid) : b > a}
            IN /\ \A b \in later :
                    (\A c \in later : b <= c) =>
                        /\ ~log[b].is_error
                        /\ log[b].arg = Outcome(a).v
               /\ (later = {} /\ performs[log[a].pid].ended > 0) =>
                    performs[log[a].pid].terminal = <<FALSE, Outcome(a).v>>

\* the first entry's error continuation returned a value for the failure of
\* the intent, the error-only second entry was passed over, and the walk
\* ended with that value as a success
C15_Witness ==
    /\ Quiet
    /\ root.effect.intent.type = "Fail"
    /\ Len(root.effect.callbacks) = 2
    /\ root.effect.callbacks[1][1] = NoneV
    /\ root.effect.callbacks[2][1] = NoneV
    /\ root.effect.callbacks[2][2] # NoneV
    /\ Len(log) = 1
    /\ Recovered(1)
    /\ performs[1].terminal = <<FALSE, IntV(0 - 1)>>

\* log entries of continuations that returned an Effect whose intent has no
\* perform capability
SplicedNoHandler ==
    {a \in 1..Len(log) :
        /\ ~log[a].out[1]
        /\ log[a].out[2].t = "Effect"
        /\ ~log[a].out[2].intent.has_perform}

\* C16: under default_dispatcher, when a continuation returns an Effect
\* whose intent has no perform capability, dispatching the spliced Effect
\* raises NoEffectHandlerError out of the trampoline: no continuation is
\* invoked after the one that returned the Effect, neither an error
\* continuation of the inner Effect nor a remaining outer entry, and the
\* walk never reaches the end of the chain.
C16_SplicedNoHandlerRaises ==
    root.dispatcher = "default_dispatcher" =>
        \A a \in SplicedNoHandler :
            /\ a = Len(log)
            /\ performs[log[a].pid].ended = 0
            /\ performs[log[a].pid].terminal = NoResult
            /\ \A b \in 1..Len(boxes) :
                 boxes[b].intent = log[a].out[2].intent => boxes[b].resolved = 0
            /\ stack = <<>> =>
                 raised = <<NoEffectHandlerError(log[a].out[2].intent)>>

\* an error continuation has returned an Effect with an error continuation
\* of its own on an intent without handler, and perform has raised
C16_Witness ==
    /\ root.dispatcher = "default_dispatcher"
    /\ root.effect.intent.type = "Fail"
    /\ stack = <<>>
    /\ raised = <<NoEffectHandlerError(RawIntent)>>
    /\ \E a \in SplicedNoHandler :
         /\ log[a].is_error
         /\ log[a].out[2].callbacks[1][2] # NoneV

\* C16 as claimed: the no-handler failure of the spliced Effect enters the
\* combined chain at its start, so the inner Effect's error continuation is
\* the next one invoked, with that failure.
C16_AsClaimed ==
    (root.dispatcher = "default_dispatcher" /\ phase = "performing" /\ stack = <<>>) =>
        \A a \in SplicedNoHandler :
            log[a].out[2].callbacks[1][2] # NoneV =>
                /\ Len(log) > a
                /\ log[a + 1].name = log[a].out[2].callbacks[1][2].name
                /\ log[a + 1].is_error
                /\ log[a + 1].arg =
                     exc_info(NoEffectHandlerError(log[a].out[2].intent))

\* a failure descriptor in the order of sys.exc_info(): the exception's
\* type, the exception, the traceback
IsExcInfo(v) ==
    /\ v.t = "tuple"
    /\ Len(v.items) = 3
    /\ v.items[1].t = "type"
    /\ v.items[2].t = "exception"
    /\ v.items[1] = ExcType(v.items[2])

\* C17 as claimed: every failure a continuation is invoked with, and every
\* failure a walk ends with, is a descriptor of that one shape, so the
\* Failure effect.twisted.perform makes of it has the exception as its value
\* and the exception's type as its type.
C17_AsClaimed ==
    /\ \A a \in 1..Len(log) : log[a].is_error => IsExcInfo(log[a].arg)
    /\ \A p \in 1..Len(performs) :
         /\ (performs[p].terminal # NoResult /\ performs[p].terminal[1]) =>
                IsExcInfo(performs[p].terminal[2])
         /\ (performs[p].d # NoneV /\ performs[p].d.called > 0
               /\ performs[p].d.result[1]) =>
                /\ performs[p].d.result[2].value.t = "exception"
                /\ performs[p].d.result[2].type.t = "type"

\* C19 as claimed: the dispatcher an intent's perform_effect is called with
\* is the dispatcher that delegated to it, the one perform was called with.
C19_AsClaimed ==
    \A b \in 1..Len(boxes) :
        boxes[b].passed # "nothing" =>
            boxes[b].passed = performs[boxes[b].pid].dispatcher

\* the Effect values met in perform call p: returned by a continuation, or
\* put in a box by the dispatcher
EffectsReturned(p) ==
    {a \in InvokedIn(p) : ~log[a].out[1] /\ log[a].out[2].t = "Effect"}

EffectsBoxed(p) ==
    {b \in 1..Len(boxes) :
        /\ boxes[b].pid = p
        /\ boxes[b].result # NoResult
        /\ boxes[b].result[2].t = "Effect"}

\* C20: no continuation is invoked with an Effect and no walk ends with an
\* Effect as its outcome; every Effect a continuation returned or a
\* dispatcher put in a box has been dispatched with a box of its own by the
\* time the engine is idle, also when no entry of the chain was left.
C20_EffectNeverAValue ==
    /\ \A a \in 1..Len(log) : log[a].arg.t # "Effect"
    /\ \A p \in 1..Len(performs) :
         /\ performs[p].terminal # NoResult =>
                performs[p].terminal[2].t # "Effect"
         /\ (performs[p].d # NoneV /\ performs[p].d.called > 0) =>
                performs[p].d.result[2].t # "Effect"
         /\ stack = <<>> =>
                Cardinality({b \in 1..Len(boxes) : boxes[b].pid = p}) =
                    1 + Cardinality(EffectsReturned(p)) + Cardinality(EffectsBoxed(p))

\* the dispatcher put an Effect in the box of the intent, the last
\* continuation of the chain returned another, and the walk has ended with
\* the value of the latter's intent
C20_Witness ==
    /\ Quiet
    /\ Len(root.effect.callbacks) >= 1
    /\ EffectsBoxed(1) = {1}
    /\ Len(log) >= 2
    /\ Len(log) \in EffectsReturned(1)
    /\ log[Len(log)].name = <<Len(root.effect.callbacks)>>
    /\ performs[1].ended = 1
    /\ performs[1].terminal = <<FALSE, IntV(5)>>

\* the engine is idle, no box is waiting for the caller's dispatcher, and if
\* every box made was resolved exactly once then every perform call walked
\* its chain to the end exactly once
Done ==
    /\ phase = "performing"
    /\ stack = <<>>
    /\ \A b \in 1..Len(boxes) : boxes[b].held => boxes[b].resolved = 1
    /\ (\A b \in 1..Len(boxes) : boxes[b].resolved = 1) =>
           \A p \in 1..Len(performs) :
               performs[p].ended = 1 /\ performs[p].terminal # NoResult

\* while a box is unresolved none of the continuations waiting for its
\* result has been invoked
NoneBeforeResolved ==
    \A b \in 1..Len(boxes) :
        boxes[b].resolved = 0 =>
            \A i \in 1..Len(boxes[b].more) : \A k \in 1..2 :
                boxes[b].more[i][k] # NoneV =>
                    \A a \in InvokedIn(boxes[b].pid) :
                        log[a].name # boxes[b].more[i][k].name

\* An upper bound on the steps still to come, from what is left to do: the
\* entries of the chains not yet walked, the Effects their continuations may
\* return, the children not yet performed, the loops not yet returned.
RECURSIVE EffectSteps(_), EntriesSteps(_), FnSteps(_), IntentSteps(_), ChildrenSteps(_, _)

\* to perform effect: dispatch its intent, then walk its chain
EffectSteps(effect) ==
    IntentSteps(effect.intent) + EntriesSteps(effect.callbacks) + 1

\* to pass every entry of chain, whichever continuation each one selects
EntriesSteps(chain) ==
    IF chain = <<>> THEN 0
    ELSE 1 + Max(FnSteps(chain[1][1]), FnSteps(chain[1][2]))
           + EntriesSteps(Tail(chain))

\* what invoking f adds: the splice and the performing of the Effect it returns
FnSteps(f) ==
    IF f # NoneV /\ f.kind = "eff" THEN EffectSteps(f.eff) + 1 ELSE 0

\* what the box of intent adds before the walk of the chain resumes
IntentSteps(intent) ==
    CASE intent.type = "Const" ->
           IF intent.v.t = "Effect" THEN EffectSteps(intent.v) + 2 ELSE 0
      [] intent.type = "Async" -> 3
      [] intent.type = "ParallelEffects" -> 3 + ChildrenSteps(intent.effects, 1)
      [] OTHER -> 0

\* to perform the children from the i-th on, each in a loop of its own
ChildrenSteps(effects, i) ==
    IF i > Len(effects) THEN 0
    ELSE 3 + EffectSteps(twisted_perform(effects[i], 0))
           + ChildrenSteps(effects, i + 1)

WorkSteps(work) ==
    CASE work.f = "none" -> 0
      [] work.f = "_perform" -> 1 + EffectSteps(work.effect)
      [] OTHER ->
           IF work.result[2].t = "Effect"
           THEN 2 + EffectSteps(splice(work.result[2], work.chain))
           ELSE 1 + EntriesSteps(work.chain)

\* the frame at position k of the stack
FrameSteps(k) ==
    IF stack[k].k = "trampoline" THEN 1 + WorkSteps(stack[k].work)
    ELSE 1 + ChildrenSteps(stack[k].effects,
                           IF k = Len(stack) THEN stack[k].i ELSE stack[k].i + 1)

\* a box still to be resolved: by the caller's dispatcher, or by the
\* gatherResults of its children
BoxSteps(box) ==
    IF box.resolved > 0 THEN 0
    ELSE IF box.held THEN 3 + EntriesSteps(box.more)
    ELSE IF box.intent.type = "ParallelEffects" THEN 2 + EntriesSteps(box.more)
    ELSE 0

RECURSIVE SumTo(_, _)
SumTo(F(_), n) == IF n = 0 THEN 0 ELSE F(n) + SumTo(F, n - 1)

StepsOfBox(b) == BoxSteps(boxes[b])

StepsLeft ==
    IF phase = "built"
    THEN 3 + EffectSteps(IF root.api = "effect.twisted.perform"
                         THEN twisted_perform(root.effect, 1) ELSE root.effect)
    ELSE SumTo(FrameSteps, Len(stack)) + SumTo(StepsOfBox, Len(boxes))

\* some call has a next step to take: the caller's call of perform, the
\* innermost frame of the stack, or the caller's dispatcher with a box it kept
CanStep ==
    \/ phase = "built"
    \/ stack # <<>>
    \/ \E b \in 1..Len(boxes) : boxes[b].held /\ boxes[b].resolved = 0

\* C18: perform stops after a number of steps bounded by what the Effect
\* holds (every step leaves fewer steps to come); where it stops the engine is
\* idle with nothing bounced, and if every box was resolved exactly once
\* every chain has been walked to its end; and as long as a box is not
\* resolved none of the continuations after that dispatch is invoked.
C18_Termination ==
    /\ [][StepsLeft' < StepsLeft]_vars
    /\ [](StepsLeft >= 0)
    /\ [](~CanStep => Done)
    /\ []NoneBeforeResolved

\* a box the dispatcher kept was resolved later, the walk went on through a
\* spliced Effect and ended
C18_Witness ==
    /\ Done
    /\ \A b \in 1..Len(boxes) : boxes[b].resolved = 1
    /\ \E b \in 1..Len(boxes) : boxes[b].held
    /\ Len(boxes) >= 3
    /\ Len(log) >= 3
    /\ performs[1].ended = 1

====
